---- MODULE Spec2Model ----
(***************************************************************************)
(* Model of src/lib/data-service.ts: a client-side data service with an    *)
(* in-memory TTL cache (dataCache / cacheExpireTime) in front of an HTTP   *)
(* API, and a bounded exponential-backoff retry loop in saveData.          *)
(*                                                                         *)
(* Every call of an async function is a frame in `calls`.  The code of a   *)
(* function between two `await`s runs atomically (single-threaded event    *)
(* loop), so there is one action per stretch of code between suspension    *)
(* points; the outcome of the awaited promise is the action's input.       *)
(* JS values are modelled as strings: "undefined" and "null" are the JS    *)
(* values of that name, "" is the empty string.  File names are            *)
(* well-formed strings (encodeURIComponent does not throw on them).        *)
(* `now` is the value Date.now() returns; it advances in Tick only, so     *)
(* timers (the backoff sleep, the request timeout) are untimed events.     *)
(***************************************************************************)
EXTENDS Integers, Sequences, FiniteSets, TLC

VARIABLES dataCache, cacheExpireTime, now, calls, nCalls, stored, lastDone

vars == <<dataCache, cacheExpireTime, now, calls, nCalls, stored, lastDone>>

\* ---------------------------------------------------------------- bounds
MaxCalls == 2
MaxNow == 300000
MaxRetriesSolo == 5

\* ------------------------------------------------------------- constants
CACHE_EXPIRE_TIME == 5 * 60 * 1000

\* the clock is observed every half TTL
ClockStep == CACHE_EXPIRE_TIME \div 2

\* ---------------------------------------------------------- input domains
Slots == {1, 2}
Names == {"", "a"}
Payloads == {"p1"}
Defaults == {"d1"}
SaveValues == {"w1", "null"}
SaveValuesSolo == {"w1", "w2", "null", "undefined"}
FileLists == {"files"}
\* maxRetries of the saveData calls that run concurrently with other calls
SaveRetries == {1}

\* outcomes of `await fetch(...)`: the promise rejects (network error,
\* abort) or resolves to a response with a status
FetchOutcomes == {"reject", "200", "404", "500"}
RequestOutcomes == {"reject", "200", "500"}
SaveOutcomes == {"reject", "timeout", "200", "500"}
\* outcomes of `await response.json()` on a read: the body is not JSON, or
\* decodes to null, to an object without the field, or to {data: p}
ReadBodies == {"invalid", "null", "{}"} \cup Payloads
\* ... on a write: {success: true|false|1} or no such field
WriteBodies == {"invalid", "true", "false"}
WriteBodiesSolo == {"invalid", "null", "{}", "true", "false", "1"}
ListBodies == {"invalid", "{}"} \cup FileLists

\* ------------------------------------------------------------ Map helpers
EmptyMap == [x \in {} |-> x]
MapHas(m, k) == k \in DOMAIN m
MapSet(m, k, v) == [x \in (DOMAIN m) \cup {k} |-> IF x = k THEN v ELSE m[x]]
MapDelete(m, k) == [x \in (DOMAIN m) \ {k} |-> m[x]]
MapGet(m, k) == IF k \in DOMAIN m THEN m[k] ELSE "undefined"

Min(a, b) == IF a <= b THEN a ELSE b

\* JS truthiness of the modelled values
Truthy(v) == v \notin {"", "undefined", "null", "false", "0"}

\* ------------------------------------------------------------ call frames
Idle ==
  [op |-> "none", pc |-> "idle", filename |-> "", arg |-> "undefined",
   flag |-> FALSE, maxRetries |-> 0, retries |-> 0, reqs |-> 0,
   delays |-> <<>>, status |-> "none", body |-> "none",
   ret |-> "none"]

Free(s) == calls[s].pc \in {"idle", "done", "threw"}
\* a new call takes the lowest free slot
CanCall(s) ==
  /\ Free(s)
  /\ \A t \in Slots : t < s => ~Free(t)
  /\ nCalls < MaxCalls

\* a frame of a fresh call
NewCall(op, filename, arg, flag, maxRetries) ==
  [Idle EXCEPT !.op = op, !.filename = filename, !.arg = arg, !.flag = flag,
               !.maxRetries = maxRetries]

\* the frame of a call that returned v
Return(f, v) == [f EXCEPT !.pc = "done", !.ret = v]

\* `lastDone` is the slot of the call that settled most recently (history)
Completion(s) ==
  lastDone' = IF calls'[s].pc \in {"done", "threw"} THEN s ELSE lastDone

\* ------------------------------------------------------------- the cache
\* `cacheExpireTime.get(filename) || 0`
expireOf(filename) ==
  IF MapHas(cacheExpireTime, filename) /\ cacheExpireTime[filename] # 0
  THEN cacheExpireTime[filename] ELSE 0

\* mutant of isCacheValid: an entry is still valid at its expiry time
isCacheValid_atExpiry(filename) ==
  now <= expireOf(filename) /\ MapHas(dataCache, filename)

\* the validity test shared by fetchData (line 28) and isCacheValid
isCacheValid(filename) ==
  now < expireOf(filename) /\ MapHas(dataCache, filename)

\* mutant of cacheHit: the expiry comparison is inverted
cacheHit_inverted(filename, useCache) ==
  useCache /\ now > expireOf(filename) /\ MapHas(dataCache, filename)

\* mutant of cacheHit: the read path still serves an entry at its expiry
cacheHit_atExpiry(filename, useCache) ==
  useCache /\ now <= expireOf(filename) /\ MapHas(dataCache, filename)

\* fetchData lines 24-32: the read is served from the cache
cacheHit(filename, useCache) ==
  useCache /\ now < expireOf(filename) /\ MapHas(dataCache, filename)

\* mutant of cacheStore: an existing expiry record is not refreshed
cacheStore_keepsExpiry(k, v, t) ==
  /\ dataCache' = MapSet(dataCache, k, v)
  /\ cacheExpireTime' =
       IF MapHas(cacheExpireTime, k) THEN cacheExpireTime
       ELSE MapSet(cacheExpireTime, k, t + CACHE_EXPIRE_TIME)
  /\ stored' = MapSet(stored, k, <<t, v>>)

\* `dataCache.set(k, v); cacheExpireTime.set(k, Date.now() + CACHE_EXPIRE_TIME)`
\* at time t; `stored` is the history of the last such store per key
cacheStore(k, v, t) ==
  /\ dataCache' = MapSet(dataCache, k, v)
  /\ cacheExpireTime' = MapSet(cacheExpireTime, k, t + CACHE_EXPIRE_TIME)
  /\ stored' = MapSet(stored, k, <<t, v>>)

cacheKeep == UNCHANGED <<dataCache, cacheExpireTime, stored>>

\* ------------------------------------------------------------- fetchData
\* mutant of fetchCatch: the error is thrown on to the caller
fetchCatch_rethrow(f) == [f EXCEPT !.pc = "threw"]

\* catch block, lines 55-58
fetchCatch(f) == Return(f, f.arg)

\* mutant of fetchData: a read joins a request already in flight for the
\* same file instead of issuing its own
fetchData_joins(s, filename, defaultValue, useCache) ==
  /\ CanCall(s)
  /\ nCalls' = nCalls + 1
  /\ LET f == NewCall("fetchData", filename, defaultValue, useCache, 0)
         inFlight == \E t \in Slots :
                       /\ calls[t].op = "fetchData"
                       /\ calls[t].pc \in {"fetch_await", "fetch_json"}
                       /\ calls[t].filename = filename
     IN calls' = [calls EXCEPT ![s] =
          IF cacheHit(filename, useCache)
          THEN Return(f, MapGet(dataCache, filename))
          ELSE [f EXCEPT !.pc = "fetch_await",
                         !.reqs = IF inFlight THEN 0 ELSE 1]]
  /\ cacheKeep
  /\ UNCHANGED now
  /\ Completion(s)

\* lines 23-36: the cache check and the request, up to `await fetch`
fetchData(s, filename, defaultValue, useCache) ==
  /\ CanCall(s)
  /\ nCalls' = nCalls + 1
  /\ LET f == NewCall("fetchData", filename, defaultValue, useCache, 0) IN
       calls' = [calls EXCEPT ![s] =
         IF cacheHit(filename, useCache)
         THEN Return(f, MapGet(dataCache, filename))
         ELSE [f EXCEPT !.pc = "fetch_await", !.reqs = 1]]
  /\ cacheKeep
  /\ UNCHANGED now
  /\ Completion(s)

\* mutant of fetchResponse: the default returned on 404 is cached
fetchResponse_cachesDefault(s, r) ==
  /\ calls[s].pc = "fetch_await"
  /\ LET f == [calls[s] EXCEPT !.status = r] IN
       /\ calls' = [calls EXCEPT ![s] =
            IF r = "reject" THEN fetchCatch(f)
            ELSE IF r # "200"
                 THEN IF r = "404" THEN Return(f, f.arg) ELSE fetchCatch(f)
                 ELSE [f EXCEPT !.pc = "fetch_json"]]
       /\ IF r = "404" /\ f.flag THEN cacheStore(f.filename, f.arg, now)
                                 ELSE cacheKeep
  /\ UNCHANGED <<now, nCalls>>
  /\ Completion(s)

\* lines 36-46: the response arrives (or fetch rejects)
fetchResponse(s, r) ==
  /\ calls[s].pc = "fetch_await"
  /\ LET f == [calls[s] EXCEPT !.status = r] IN
       calls' = [calls EXCEPT ![s] =
         IF r = "reject" THEN fetchCatch(f)
         ELSE IF r # "200"
              THEN IF r = "404" THEN Return(f, f.arg) ELSE fetchCatch(f)
              ELSE [f EXCEPT !.pc = "fetch_json"]]
  /\ cacheKeep
  /\ UNCHANGED <<now, nCalls>>
  /\ Completion(s)

\* `result.data` of a decoded read body
readData(b) == IF b = "{}" THEN "undefined" ELSE b

\* mutant of fetchJson: the payload is cached whatever useCache says
fetchJson_alwaysCaches(s, b) ==
  /\ calls[s].pc = "fetch_json"
  /\ LET f == [calls[s] EXCEPT !.body = b] IN
       IF b \in {"invalid", "null"}
       THEN /\ calls' = [calls EXCEPT ![s] = fetchCatch(f)]
            /\ cacheKeep
       ELSE /\ calls' = [calls EXCEPT ![s] = Return(f, readData(b))]
            /\ cacheStore(f.filename, readData(b), now)
  /\ UNCHANGED <<now, nCalls>>
  /\ Completion(s)

\* lines 46-54: the body is decoded (or response.json() rejects; reading
\* `.data` of null throws a TypeError)
fetchJson(s, b) ==
  /\ calls[s].pc = "fetch_json"
  /\ LET f == [calls[s] EXCEPT !.body = b] IN
       IF b \in {"invalid", "null"}
       THEN /\ calls' = [calls EXCEPT ![s] = fetchCatch(f)]
            /\ cacheKeep
       ELSE /\ calls' = [calls EXCEPT ![s] = Return(f, readData(b))]
            /\ IF f.flag THEN cacheStore(f.filename, readData(b), now)
                         ELSE cacheKeep
  /\ UNCHANGED <<now, nCalls>>
  /\ Completion(s)

\* -------------------------------------------------------------- saveData
\* mutant of backoffDelay: the 5000 ms cap is missing
backoffDelay_uncapped(retries) == 1000 * 2^(retries - 1)

\* line 128: Math.min(1000 * Math.pow(2, retries - 1), 5000)
backoffDelay(retries) == Min(1000 * 2^(retries - 1), 5000)

\* mutant of writeSuccess: a body without the field counts as success
writeSuccess_missingOk(b) ==
  IF b = "invalid" THEN "false" ELSE IF b = "{}" THEN "true" ELSE b

\* `result.success` of a decoded write body; a body that is not JSON is
\* replaced by {success: false} (line 108)
writeSuccess(b) ==
  IF b = "invalid" THEN "false" ELSE IF b = "{}" THEN "undefined" ELSE b

\* mutant of saveAttempt: only `undefined` is rejected, null is sent
saveAttempt_nullPasses(f) ==
  IF ~(f.retries <= f.maxRetries) THEN Return(f, "false")
  ELSE IF ~Truthy(f.filename) THEN Return(f, "false")
  ELSE IF f.arg = "undefined" THEN Return(f, "false")
  ELSE [f EXCEPT !.pc = "save_await", !.reqs = f.reqs + 1,
                 !.status = "none", !.body = "none"]

\* lines 76-101: the loop test, the two argument checks and the request, up
\* to `await fetch`
saveAttempt(f) ==
  IF ~(f.retries <= f.maxRetries) THEN Return(f, "false")
  ELSE IF ~Truthy(f.filename) THEN Return(f, "false")
  ELSE IF f.arg = "undefined" \/ f.arg = "null" THEN Return(f, "false")
  ELSE [f EXCEPT !.pc = "save_await", !.reqs = f.reqs + 1,
                 !.status = "none", !.body = "none"]

\* mutant of saveCatch: the retry test is off by one
saveCatch_offByOne(f) ==
  LET retries == f.retries + 1 IN
    IF retries < f.maxRetries
    THEN [f EXCEPT !.retries = retries, !.pc = "save_sleep",
                   !.delays = Append(f.delays, backoffDelay(retries))]
    ELSE Return([f EXCEPT !.retries = retries], "false")

\* catch block, lines 122-134; the delay handed to setTimeout is recorded
saveCatch(f) ==
  LET retries == f.retries + 1 IN
    IF retries <= f.maxRetries
    THEN [f EXCEPT !.retries = retries, !.pc = "save_sleep",
                   !.delays = Append(f.delays, backoffDelay(retries))]
    ELSE Return([f EXCEPT !.retries = retries], "false")

saveData(s, filename, data, updateCache, maxRetries) ==
  /\ CanCall(s)
  /\ nCalls' = nCalls + 1
  /\ calls' = [calls EXCEPT ![s] =
       saveAttempt(NewCall("saveData", filename, data, updateCache,
                           maxRetries))]
  /\ cacheKeep
  /\ UNCHANGED now
  /\ Completion(s)

\* lines 90-108: a response arrives, fetch rejects, or
\* AbortSignal.timeout(5000) aborts the attempt
saveResponse(s, r) ==
  /\ calls[s].pc = "save_await"
  /\ LET f == [calls[s] EXCEPT !.status = r] IN
       calls' = [calls EXCEPT ![s] =
         IF r \in {"reject", "timeout"} THEN saveCatch(f)
         ELSE IF r # "200" THEN [f EXCEPT !.pc = "save_text"]
         ELSE [f EXCEPT !.pc = "save_json"]]
  /\ cacheKeep
  /\ UNCHANGED <<now, nCalls>>
  /\ Completion(s)

\* mutant of saveText: the data of a write the server refused is cached
saveText_caches(s) ==
  /\ calls[s].pc = "save_text"
  /\ calls' = [calls EXCEPT ![s] = saveCatch(calls[s])]
  /\ IF calls[s].flag
     THEN cacheStore(calls[s].filename, calls[s].arg, now)
     ELSE cacheKeep
  /\ UNCHANGED <<now, nCalls>>
  /\ Completion(s)

\* lines 104-105: the error text is read (or not) and the error is thrown
saveText(s) ==
  /\ calls[s].pc = "save_text"
  /\ calls' = [calls EXCEPT ![s] = saveCatch(calls[s])]
  /\ cacheKeep
  /\ UNCHANGED <<now, nCalls>>
  /\ Completion(s)

\* mutant of saveJson: `return true` is missing, the loop goes on
saveJson_noReturn(s, b) ==
  /\ calls[s].pc = "save_json"
  /\ LET f == [calls[s] EXCEPT !.body = b] IN
       IF b = "null" \/ ~Truthy(writeSuccess(b))
       THEN /\ calls' = [calls EXCEPT ![s] = saveCatch(f)]
            /\ cacheKeep
       ELSE /\ calls' = [calls EXCEPT ![s] = saveAttempt(f)]
            /\ IF f.flag THEN cacheStore(f.filename, f.arg, now)
                         ELSE cacheKeep
  /\ UNCHANGED <<now, nCalls>>
  /\ Completion(s)

\* mutant of saveJson: a successful write does not replace an entry that
\* is still valid
saveJson_keepsValid(s, b) ==
  /\ calls[s].pc = "save_json"
  /\ LET f == [calls[s] EXCEPT !.body = b] IN
       IF b = "null" \/ ~Truthy(writeSuccess(b))
       THEN /\ calls' = [calls EXCEPT ![s] = saveCatch(f)]
            /\ cacheKeep
       ELSE /\ calls' = [calls EXCEPT ![s] = Return(f, "true")]
            /\ IF f.flag /\ ~isCacheValid(f.filename)
               THEN cacheStore(f.filename, f.arg, now)
               ELSE cacheKeep
  /\ UNCHANGED <<now, nCalls>>
  /\ Completion(s)

\* lines 108-121: the body is decoded; reading `.success` of null throws
saveJson(s, b) ==
  /\ calls[s].pc = "save_json"
  /\ LET f == [calls[s] EXCEPT !.body = b] IN
       IF b = "null" \/ ~Truthy(writeSuccess(b))
       THEN /\ calls' = [calls EXCEPT ![s] = saveCatch(f)]
            /\ cacheKeep
       ELSE /\ calls' = [calls EXCEPT ![s] = Return(f, "true")]
            /\ IF f.flag THEN cacheStore(f.filename, f.arg, now)
                         ELSE cacheKeep
  /\ UNCHANGED <<now, nCalls>>
  /\ Completion(s)

\* mutant of saveWake: the backoff promise is never resolved
saveWake_neverFires(s) ==
  /\ calls[s].pc = "save_sleep"
  /\ UNCHANGED vars

\* line 130: the backoff timer fires and the loop starts its next iteration
saveWake(s) ==
  /\ calls[s].pc = "save_sleep"
  /\ calls' = [calls EXCEPT ![s] = saveAttempt(calls[s])]
  /\ cacheKeep
  /\ UNCHANGED <<now, nCalls>>
  /\ Completion(s)

\* ------------------------------------------------------------ deleteData
\* catch block, lines 160-163
deleteCatch(f) == Return(f, "false")

deleteData(s, filename) ==
  /\ CanCall(s)
  /\ nCalls' = nCalls + 1
  /\ calls' = [calls EXCEPT ![s] =
       [NewCall("deleteData", filename, "undefined", FALSE, 0)
          EXCEPT !.pc = "delete_await", !.reqs = 1]]
  /\ cacheKeep
  /\ UNCHANGED now
  /\ Completion(s)

\* mutant of deleteResponse: the expiry record is not removed
deleteResponse_keepsExpiry(s, r) ==
  /\ calls[s].pc = "delete_await"
  /\ LET f == [calls[s] EXCEPT !.status = r] IN
       IF r # "200"
       THEN /\ calls' = [calls EXCEPT ![s] = deleteCatch(f)]
            /\ cacheKeep
       ELSE /\ calls' = [calls EXCEPT ![s] = Return(f, "true")]
            /\ dataCache' = MapDelete(dataCache, f.filename)
            /\ stored' = MapDelete(stored, f.filename)
            /\ UNCHANGED cacheExpireTime
  /\ UNCHANGED <<now, nCalls>>
  /\ Completion(s)

\* mutant of deleteResponse: the cache entry is dropped whatever the outcome
deleteResponse_always(s, r) ==
  /\ calls[s].pc = "delete_await"
  /\ LET f == [calls[s] EXCEPT !.status = r] IN
       /\ calls' = [calls EXCEPT ![s] =
            IF r # "200" THEN deleteCatch(f) ELSE Return(f, "true")]
       /\ dataCache' = MapDelete(dataCache, f.filename)
       /\ cacheExpireTime' = MapDelete(cacheExpireTime, f.filename)
       /\ stored' = MapDelete(stored, f.filename)
  /\ UNCHANGED <<now, nCalls>>
  /\ Completion(s)

\* lines 147-159
deleteResponse(s, r) ==
  /\ calls[s].pc = "delete_await"
  /\ LET f == [calls[s] EXCEPT !.status = r] IN
       IF r # "200"
       THEN /\ calls' = [calls EXCEPT ![s] = deleteCatch(f)]
            /\ cacheKeep
       ELSE /\ calls' = [calls EXCEPT ![s] = Return(f, "true")]
            /\ dataCache' = MapDelete(dataCache, f.filename)
            /\ cacheExpireTime' = MapDelete(cacheExpireTime, f.filename)
            /\ stored' = MapDelete(stored, f.filename)
  /\ UNCHANGED <<now, nCalls>>
  /\ Completion(s)

\* --------------------------------------------------------- listDataFiles
\* catch block, lines 180-183
listCatch(f) == Return(f, "[]")

listDataFiles(s) ==
  /\ CanCall(s)
  /\ nCalls' = nCalls + 1
  /\ calls' = [calls EXCEPT ![s] =
       [NewCall("listDataFiles", "", "undefined", FALSE, 0)
          EXCEPT !.pc = "list_await", !.reqs = 1]]
  /\ cacheKeep
  /\ UNCHANGED now
  /\ Completion(s)

\* lines 172-178
listResponse(s, r) ==
  /\ calls[s].pc = "list_await"
  /\ LET f == [calls[s] EXCEPT !.status = r] IN
       calls' = [calls EXCEPT ![s] =
         IF r # "200" THEN listCatch(f) ELSE [f EXCEPT !.pc = "list_json"]]
  /\ cacheKeep
  /\ UNCHANGED <<now, nCalls>>
  /\ Completion(s)

\* `result.files` of a decoded list body
listFiles(b) == IF b = "{}" THEN "undefined" ELSE b

\* lines 178-179: `result.files || []`; reading `.files` of null throws
listJson(s, b) ==
  /\ calls[s].pc = "list_json"
  /\ LET f == [calls[s] EXCEPT !.body = b] IN
       calls' = [calls EXCEPT ![s] =
         IF b \in {"invalid", "null"} THEN listCatch(f)
         ELSE Return(f, IF Truthy(listFiles(b)) THEN listFiles(b) ELSE "[]")]
  /\ cacheKeep
  /\ UNCHANGED <<now, nCalls>>
  /\ Completion(s)

\* ------------------------------------------------------------ clearCache
\* mutant of clearCache: a named clear empties the whole cache
clearCache_all(filename) ==
  /\ dataCache' = EmptyMap
  /\ cacheExpireTime' = EmptyMap
  /\ stored' = EmptyMap
  /\ UNCHANGED <<now, calls, nCalls, lastDone>>

\* mutant of clearCache: only the values are dropped, the expiry records stay
clearCache_valuesOnly(filename) ==
  /\ IF Truthy(filename)
     THEN /\ dataCache' = MapDelete(dataCache, filename)
          /\ stored' = MapDelete(stored, filename)
     ELSE /\ dataCache' = EmptyMap
          /\ stored' = EmptyMap
  /\ UNCHANGED <<cacheExpireTime, now, calls, nCalls, lastDone>>

\* lines 190-200; filename is a name or omitted ("undefined")
clearCache(filename) ==
  /\ IF Truthy(filename)
     THEN /\ dataCache' = MapDelete(dataCache, filename)
          /\ cacheExpireTime' = MapDelete(cacheExpireTime, filename)
          /\ stored' = MapDelete(stored, filename)
     ELSE /\ dataCache' = EmptyMap
          /\ cacheExpireTime' = EmptyMap
          /\ stored' = EmptyMap
  /\ UNCHANGED <<now, calls, nCalls, lastDone>>

\* ----------------------------------------------------------------- clock
\* Date.now() advances
Tick ==
  /\ now + ClockStep <= MaxNow
  /\ now' = now + ClockStep
  /\ UNCHANGED <<dataCache, cacheExpireTime, calls, nCalls, stored, lastDone>>

\* --------------------------------------------------------- specification
Init ==
  /\ dataCache = EmptyMap
  /\ cacheExpireTime = EmptyMap
  /\ stored = EmptyMap
  /\ now = 0
  /\ calls = [s \in Slots |-> Idle]
  /\ nCalls = 0
  /\ lastDone = 0

Next ==
  \/ \E s \in Slots, k \in Names, d \in Defaults, c \in BOOLEAN :
       fetchData(s, k, d, c)
  \/ \E s \in Slots, r \in FetchOutcomes : fetchResponse(s, r)
  \/ \E s \in Slots, b \in ReadBodies : fetchJson(s, b)
  \/ \E s \in Slots, k \in Names, v \in SaveValues, c \in BOOLEAN,
        n \in SaveRetries : saveData(s, k, v, c, n)
  \/ \E s \in Slots, r \in SaveOutcomes : saveResponse(s, r)
  \/ \E s \in Slots : saveText(s)
  \/ \E s \in Slots, b \in WriteBodies : saveJson(s, b)
  \/ \E s \in Slots : saveWake(s)
  \/ \E s \in Slots, k \in Names : deleteData(s, k)
  \/ \E s \in Slots, r \in RequestOutcomes : deleteResponse(s, r)
  \/ \E s \in Slots : listDataFiles(s)
  \/ \E s \in Slots, r \in RequestOutcomes : listResponse(s, r)
  \/ \E s \in Slots, b \in ListBodies : listJson(s, b)
  \/ \E k \in Names \cup {"undefined"} : clearCache(k)
  \/ Tick

Spec == Init /\ [][Next]_vars

\* one saveData call at a time, with longer retry loops
NextSolo ==
  \/ \E k \in Names, v \in SaveValuesSolo, c \in BOOLEAN,
        n \in 0..MaxRetriesSolo : saveData(1, k, v, c, n)
  \/ \E r \in SaveOutcomes : saveResponse(1, r)
  \/ saveText(1)
  \/ \E b \in WriteBodiesSolo : saveJson(1, b)
  \/ saveWake(1)
  \/ Tick

SpecSolo == Init /\ [][NextSolo]_vars

\* ================================================================ claims
\* the step starts a new call in slot s
Started(s) == CanCall(s) /\ nCalls' = nCalls + 1

\* the step runs a continuation of the call in slot s
Resumed(s, pc) == calls[s].pc = pc /\ nCalls' = nCalls /\ calls'[s] # calls[s]

\* the call's last write attempt failed: no response, a non-success status,
\* or a success status whose body does not carry a truthy success field
AttemptFailed(f) ==
  \/ f.status \in {"reject", "timeout", "500"}
  \/ f.status = "200" /\ f.body \in {"invalid", "null", "{}", "false"}

ValidSaveArgs(f) == f.filename # "" /\ f.arg \notin {"undefined", "null"}

\* C1: a fetchData(k, d, true) called while the cache holds an entry for k
\* whose expiry is later than the current time returns the cached value and
\* issues no network request.
C1_CacheHitNoRequest ==
  [][\A s \in Slots :
       (/\ Started(s)
        /\ calls'[s].op = "fetchData"
        /\ calls'[s].flag
        /\ MapHas(dataCache, calls'[s].filename)
        /\ MapHas(cacheExpireTime, calls'[s].filename)
        /\ now < cacheExpireTime[calls'[s].filename])
       => /\ calls'[s].pc = "done"
          /\ calls'[s].ret = dataCache[calls'[s].filename]
          /\ calls'[s].reqs = 0]_vars

C1_Witness ==
  \E s \in Slots :
    /\ calls[s].op = "fetchData" /\ calls[s].pc = "done" /\ calls[s].flag
    /\ calls[s].reqs = 0
    /\ MapHas(dataCache, calls[s].filename)
    /\ calls[s].ret = dataCache[calls[s].filename]

\* C2: with valid arguments and maxRetries = n >= 0, a saveData whose
\* attempts all fail makes exactly n + 1 requests and returns false, with n
\* backoff waits (none after the last failure); no call makes more than
\* n + 1 requests.
C2_ExactlyNPlusOneAttempts ==
  \A s \in Slots :
    LET f == calls[s] IN
      f.op = "saveData" =>
        /\ f.reqs <= f.maxRetries + 1
        /\ (f.pc = "done" /\ ValidSaveArgs(f) /\ AttemptFailed(f))
             => /\ f.reqs = f.maxRetries + 1
                /\ f.ret = "false"
                /\ Len(f.delays) = f.maxRetries

C2_Witness ==
  \E s \in Slots :
    LET f == calls[s] IN
      /\ f.op = "saveData" /\ f.pc = "done" /\ AttemptFailed(f)
      /\ f.maxRetries = 2 /\ f.reqs = 3 /\ f.ret = "false"
      /\ Len(f.delays) = 2

\* C3: the wait after the a-th failed attempt is min(1000 * 2^(a-1), 5000)
\* ms: 1000, 2000, 4000, 5000, 5000, ...; every delay lies in 1000..5000 and
\* the sequence is non-decreasing.
ExpectedDelay(a) ==
  IF a = 1 THEN 1000 ELSE IF a = 2 THEN 2000 ELSE IF a = 3 THEN 4000 ELSE 5000

C3_BackoffSequence ==
  \A s \in Slots :
    LET f == calls[s] IN
      /\ \A a \in 1..Len(f.delays) :
           /\ f.delays[a] = ExpectedDelay(a)
           /\ f.delays[a] >= 1000 /\ f.delays[a] <= 5000
           /\ a > 1 => f.delays[a - 1] <= f.delays[a]
      /\ f.pc = "save_sleep" => Len(f.delays) = f.reqs

C3_Witness ==
  \E s \in Slots :
    calls[s].delays = <<1000, 2000, 4000, 5000, 5000>>

\* C4: saveData with an empty name or an undefined/null value returns false
\* at once: no request, no backoff wait, no retry consumed, cache unchanged,
\* for every updateCache flag and every maxRetries >= 0.
C4_RejectedWithoutAttempt ==
  [][\A s \in Slots :
       (/\ Started(s)
        /\ calls'[s].op = "saveData"
        /\ calls'[s].maxRetries >= 0
        /\ \/ calls'[s].filename = ""
           \/ calls'[s].arg \in {"undefined", "null"})
       => /\ calls'[s].pc = "done"
          /\ calls'[s].ret = "false"
          /\ calls'[s].reqs = 0
          /\ calls'[s].delays = <<>>
          /\ calls'[s].retries = 0
          /\ dataCache' = dataCache
          /\ cacheExpireTime' = cacheExpireTime]_vars

C4_Witness ==
  \E s \in Slots :
    LET f == calls[s] IN
      /\ f.op = "saveData" /\ f.pc = "done" /\ f.ret = "false"
      /\ f.filename # "" /\ f.arg = "null" /\ f.flag /\ f.maxRetries = 2
      /\ f.reqs = 0
      /\ dataCache # EmptyMap

\* C5: no operation propagates an error: no call ends by throwing, and
\* after a transport failure (network error or timeout, non-success status,
\* body that cannot be decoded) fetchData returns its defaultValue, saveData
\* and deleteData return false, listDataFiles returns the empty list.
FetchFailed(f) ==
  \/ f.status \in {"reject", "404", "500"}
  \/ f.status = "200" /\ f.body \in {"invalid", "null"}

C5_FailuresAbsorbed ==
  \A s \in Slots :
    LET f == calls[s] IN
      /\ f.pc # "threw"
      /\ f.pc = "done" =>
           /\ (f.op = "fetchData" /\ FetchFailed(f)) => f.ret = f.arg
           /\ (f.op = "saveData" /\ AttemptFailed(f)) => f.ret = "false"
           /\ (f.op = "deleteData" /\ f.status # "200") => f.ret = "false"
           /\ (f.op = "listDataFiles"
                 /\ (f.status # "200" \/ f.body = "invalid")) => f.ret = "[]"

C5_Witness ==
  /\ calls[1].op = "fetchData" /\ calls[1].pc = "done"
  /\ calls[1].status = "200" /\ calls[1].body = "invalid"
  /\ calls[1].ret = calls[1].arg
  /\ calls[2].op = "listDataFiles" /\ calls[2].pc = "done"
  /\ calls[2].status = "reject" /\ calls[2].ret = "[]"

\* C6: when the remote answers a fetchData(k, d, _) with 404, the call
\* returns d and both cache maps are left exactly as they were.
C6_NotFoundNotCached ==
  [][\A s \in Slots :
       (Resumed(s, "fetch_await") /\ calls'[s].status = "404")
       => /\ calls'[s].pc = "done"
          /\ calls'[s].ret = calls[s].arg
          /\ dataCache' = dataCache
          /\ cacheExpireTime' = cacheExpireTime]_vars

C6_Witness ==
  \E s \in Slots :
    LET f == calls[s] IN
      /\ f.op = "fetchData" /\ f.pc = "done" /\ f.status = "404" /\ f.flag
      /\ f.ret = f.arg
      /\ ~MapHas(dataCache, f.filename)
      /\ ~MapHas(cacheExpireTime, f.filename)

\* C7: saveData returns true at the first attempt that succeeds, making no
\* further request and no further wait whatever number of attempts remain
\* (a request beyond the first follows a failed attempt only); once returned
\* the call does nothing more; it returns true only if the attempt just
\* made succeeded.
C7_ReturnsOnFirstSuccess ==
  [][\A s \in Slots :
       /\ Resumed(s, "save_json")
            => \/ /\ calls'[s].body \in {"true", "1"}
                  /\ calls'[s].pc = "done"
                  /\ calls'[s].ret = "true"
                  /\ calls'[s].reqs = calls[s].reqs
                  /\ calls'[s].delays = calls[s].delays
               \/ /\ calls'[s].body \notin {"true", "1"}
                  /\ calls'[s].retries = calls[s].retries + 1
       /\ calls'[s].op = "saveData"
            => calls'[s].reqs <= calls'[s].retries + 1
       /\ (calls[s].op = "saveData" /\ calls[s].pc = "done"
             /\ nCalls' = nCalls) => calls'[s] = calls[s]
       /\ (calls'[s].op = "saveData" /\ calls'[s].ret = "true")
            => /\ calls'[s].pc = "done"
               /\ calls'[s].status = "200"
               /\ calls'[s].body \in {"true", "1"}]_vars

C7_Witness ==
  \E s \in Slots :
    LET f == calls[s] IN
      /\ f.op = "saveData" /\ f.pc = "done" /\ f.ret = "true"
      /\ f.maxRetries = 3 /\ f.retries = 1 /\ f.reqs = 2
      /\ f.delays = <<1000>>

\* C8: an attempt succeeds only with a success status and a decoded body
\* whose success field is set; a non-success status, or a success status
\* with a body that does not decode, lacks the field or has success =
\* false, is a failed attempt: retried if attempts remain, else the call
\* returns false, and the cache is not updated.
C8_SuccessNeedsExplicitSignal ==
  [][\A s \in Slots :
       /\ (/\ \/ Resumed(s, "save_json")
                   /\ calls'[s].body \in {"invalid", "null", "{}", "false"}
              \/ Resumed(s, "save_text")
              \/ Resumed(s, "save_await")
                   /\ calls'[s].status \in {"reject", "timeout"}
           /\ calls[s].maxRetries >= 0)
            => /\ calls'[s].retries = calls[s].retries + 1
               /\ IF calls[s].retries < calls[s].maxRetries
                  THEN /\ calls'[s].pc = "save_sleep"
                       /\ calls'[s].ret = "none"
                  ELSE /\ calls'[s].pc = "done"
                       /\ calls'[s].ret = "false"
               /\ dataCache' = dataCache
               /\ cacheExpireTime' = cacheExpireTime
       /\ (/\ calls'[s].op = "saveData"
           /\ \/ dataCache' # dataCache
              \/ cacheExpireTime' # cacheExpireTime)
            => /\ calls[s].pc = "save_json"
               /\ calls'[s].status = "200"
               /\ calls'[s].body \in {"true", "1"}
               /\ calls'[s].ret = "true"]_vars

C8_Witness ==
  \E s \in Slots :
    LET f == calls[s] IN
      /\ f.op = "saveData" /\ f.pc = "save_sleep"
      /\ f.status = "200" /\ f.body = "{}" /\ f.flag
      /\ ~MapHas(dataCache, f.filename)

\* C9: deleteData issues exactly one request; when the response arrives the
\* call returns: true on a success status, with no value and no expiry
\* record left for the key (isCacheValid is false), false otherwise.
C9_DeleteOnceAndInvalidate ==
  [][\A s \in Slots :
       /\ calls'[s].op = "deleteData" => calls'[s].reqs = 1
       /\ Resumed(s, "delete_await")
            => /\ calls'[s].pc = "done"
               /\ IF calls'[s].status = "200"
                  THEN /\ calls'[s].ret = "true"
                       /\ ~MapHas(dataCache', calls[s].filename)
                       /\ ~MapHas(cacheExpireTime', calls[s].filename)
                       /\ ~(isCacheValid(calls[s].filename))'
                  ELSE calls'[s].ret = "false"]_vars

C9_Witness ==
  /\ calls[1].op = "fetchData" /\ calls[1].pc = "done" /\ calls[1].flag
  /\ calls[1].status = "200" /\ calls[1].body = "p1"
  /\ calls[2].op = "deleteData" /\ calls[2].pc = "done"
  /\ calls[2].ret = "true" /\ calls[2].filename = calls[1].filename
  /\ ~MapHas(dataCache, calls[2].filename)
  /\ ~MapHas(cacheExpireTime, calls[2].filename)

\* C10: an entry (k, v) stored at time t and not overwritten, deleted or
\* cleared is valid and read as v while now < t + 300000; from t + 300000
\* on isCacheValid(k) is false and fetchData misses, although the value and
\* the expiry record of k are still in the maps.
C10_ValidForTtlThenStale ==
  \A k \in DOMAIN stored :
    LET t == stored[k][1]
        v == stored[k][2]
    IN /\ now < t + 300000
            => /\ isCacheValid(k)
               /\ cacheHit(k, TRUE)
               /\ MapGet(dataCache, k) = v
       /\ now >= t + 300000
            => /\ ~isCacheValid(k)
               /\ ~cacheHit(k, TRUE)
               /\ MapHas(dataCache, k)
               /\ MapHas(cacheExpireTime, k)

C10_Witness ==
  \E k \in DOMAIN stored :
    /\ now >= stored[k][1] + 300000
    /\ MapHas(dataCache, k) /\ MapHas(cacheExpireTime, k)
    /\ ~isCacheValid(k)

\* the step removed the records of k and left every other key's records as
\* they were
OnlyRemoved(k) ==
  /\ ~MapHas(dataCache', k)
  /\ ~MapHas(cacheExpireTime', k)
  /\ \A j \in Names \ {k} :
       /\ MapHas(dataCache', j) = MapHas(dataCache, j)
       /\ MapHas(dataCache, j) => dataCache'[j] = dataCache[j]
       /\ MapHas(cacheExpireTime', j) = MapHas(cacheExpireTime, j)
       /\ MapHas(cacheExpireTime, j) => cacheExpireTime'[j] = cacheExpireTime[j]

AllRemoved == dataCache' = EmptyMap /\ cacheExpireTime' = EmptyMap

\* C11 as stated: clearCache() removes the records of every key, and
\* clearCache(k) removes only k's records for every key k that can hold an
\* entry, the empty name included.
C11_Original ==
  [][/\ clearCache("undefined") => AllRemoved
     /\ \A k \in Names : clearCache(k) => OnlyRemoved(k)]_vars

\* C11: clearCache() and clearCache("") remove the value and expiry records
\* of every key; clearCache(k) with a non-empty k removes only k's records
\* and leaves the records of every other key unchanged.
C11_ClearCache ==
  [][/\ \A k \in {"undefined", ""} : clearCache(k) => AllRemoved
     /\ \A k \in Names \ {""} : clearCache(k) => OnlyRemoved(k)]_vars

C11_Witness ==
  /\ calls[1].op = "fetchData" /\ calls[1].pc = "done" /\ calls[1].flag
  /\ calls[1].filename = "" /\ calls[1].body = "p1"
  /\ calls[2].op = "saveData" /\ calls[2].pc = "done" /\ calls[2].flag
  /\ calls[2].filename = "a" /\ calls[2].ret = "true"
  /\ MapHas(dataCache, "") /\ MapHas(cacheExpireTime, "")
  /\ ~MapHas(dataCache, "a") /\ ~MapHas(cacheExpireTime, "a")

\* C12: for every key, cache state and clock value, isCacheValid(k) is true
\* exactly when a fetchData(k, _, true) issued now would be served from the
\* cache, and both are true iff an entry for k is present and now is
\* strictly before its expiry.
C12_SameValidityTest ==
  \A k \in Names :
    /\ isCacheValid(k) = cacheHit(k, TRUE)
    /\ isCacheValid(k) =
         (/\ MapHas(dataCache, k)
          /\ MapHas(cacheExpireTime, k)
          /\ now < cacheExpireTime[k])

C12_Witness ==
  \E s \in Slots :
    LET k == calls[s].filename IN
      /\ calls[s].op = "fetchData" /\ calls[s].pc = "fetch_await"
      /\ calls[s].flag
      /\ MapHas(dataCache, k) /\ MapHas(cacheExpireTime, k)
      /\ now = cacheExpireTime[k]
      /\ ~isCacheValid(k)

\* C13: a fetchData with useCache that decodes a successful response, and a
\* saveData with updateCache whose attempt succeeds, leave the entry of
\* their key equal to the value returned / written, with expiry = the time
\* of that step + 300000, whatever entry the key had before.
C13_StoreResetsExpiry ==
  [][\A s \in Slots :
       LET k == calls[s].filename IN
         /\ (/\ Resumed(s, "fetch_json")
             /\ calls[s].flag
             /\ calls'[s].body \in {"{}"} \cup Payloads)
              => /\ calls'[s].pc = "done"
                 /\ calls'[s].body \in Payloads
                      => calls'[s].ret = calls'[s].body
                 /\ MapHas(dataCache', k)
                 /\ dataCache'[k] = calls'[s].ret
                 /\ MapHas(cacheExpireTime', k)
                 /\ cacheExpireTime'[k] = now' + 300000
         /\ (/\ Resumed(s, "save_json")
             /\ calls[s].flag
             /\ calls'[s].body \in {"true", "1"})
              => /\ calls'[s].ret = "true"
                 /\ MapHas(dataCache', k)
                 /\ dataCache'[k] = calls[s].arg
                 /\ MapHas(cacheExpireTime', k)
                 /\ cacheExpireTime'[k] = now' + 300000]_vars

C13_Witness ==
  /\ calls[1].op = "fetchData" /\ calls[1].pc = "done" /\ calls[1].flag
  /\ calls[1].filename = "a" /\ calls[1].body = "p1"
  /\ calls[2].op = "saveData" /\ calls[2].pc = "done" /\ calls[2].flag
  /\ calls[2].filename = "a" /\ calls[2].ret = "true"
  /\ lastDone = 2
  /\ now > 0
  /\ MapGet(dataCache, "a") = "w1"
  /\ MapHas(cacheExpireTime, "a")
  /\ cacheExpireTime["a"] = now + 300000

\* C14: there is no in-flight de-duplication: a fetchData(k, _, true) called
\* while k has no valid entry issues its own request, also when another
\* read of k is in flight (two requests in total), and each call returns
\* the outcome of its own request without touching the other call.
C14_NoDeduplication ==
  [][\A s \in Slots :
       /\ (/\ Started(s)
           /\ calls'[s].op = "fetchData"
           /\ calls'[s].flag
           /\ ~(/\ MapHas(dataCache, calls'[s].filename)
                /\ MapHas(cacheExpireTime, calls'[s].filename)
                /\ now < cacheExpireTime[calls'[s].filename]))
            => /\ calls'[s].pc = "fetch_await"
               /\ calls'[s].reqs = 1
       /\ (/\ calls'[s].op = "fetchData"
           /\ calls'[s].pc = "done"
           /\ calls'[s].reqs = 1
           /\ calls'[s] # calls[s])
            => /\ calls'[s].status \in {"reject", "404", "500"}
                    => calls'[s].ret = calls'[s].arg
               /\ calls'[s].status = "200"
                    => /\ calls'[s].body \in {"invalid", "null"}
                            => calls'[s].ret = calls'[s].arg
                       /\ calls'[s].body = "{}"
                            => calls'[s].ret = "undefined"
                       /\ calls'[s].body \in Payloads
                            => calls'[s].ret = calls'[s].body
               /\ \A t \in Slots \ {s} : calls'[t] = calls[t]]_vars

C14_Witness ==
  /\ calls[1].op = "fetchData" /\ calls[2].op = "fetchData"
  /\ calls[1].filename = calls[2].filename
  /\ calls[1].flag /\ calls[2].flag
  /\ calls[1].pc = "done" /\ calls[2].pc = "done"
  /\ calls[1].reqs = 1 /\ calls[2].reqs = 1
  /\ calls[1].status = "404" /\ calls[1].ret = calls[1].arg
  /\ calls[2].status = "200" /\ calls[2].body = "p1"
  /\ calls[2].ret = "p1"

\* the call in frame f has completed a cache-updating success on key k
CachingSuccess(f, k) ==
  /\ f.pc = "done" /\ f.flag /\ f.filename = k
  /\ \/ f.op = "fetchData" /\ f.status = "200"
          /\ f.body \in {"{}"} \cup Payloads
     \/ f.op = "saveData" /\ f.ret = "true"

\* the value that call put in the cache
StoredValue(f) ==
  IF f.op = "saveData" THEN f.arg
  ELSE IF f.body = "{}" THEN "undefined" ELSE f.body

\* C15: when two cache-updating operations on the same key overlap, then
\* once both have completed the entry of the key (if not cleared since) is
\* the value of the one that completed last, whichever was started first.
C15_LastCompletedWins ==
  \A k \in Names :
    (/\ CachingSuccess(calls[1], k)
     /\ CachingSuccess(calls[2], k)
     /\ MapHas(dataCache, k))
    => /\ lastDone \in Slots
       /\ dataCache[k] = StoredValue(calls[lastDone])

C15_Witness ==
  /\ calls[1].op = "saveData" /\ CachingSuccess(calls[1], "a")
  /\ calls[2].op = "fetchData" /\ CachingSuccess(calls[2], "a")
  /\ calls[2].body = "p1"
  /\ lastDone = 1
  /\ MapGet(dataCache, "a") = "w1"

\* SpecSolo with the scheduling the claim assumes: every attempt in flight
\* gets a response or is aborted by its timeout, bodies finish decoding and
\* backoff timers fire
SpecLive ==
  /\ Init
  /\ [][NextSolo]_vars
  /\ WF_vars(\E r \in SaveOutcomes : saveResponse(1, r))
  /\ WF_vars(saveText(1))
  /\ WF_vars(\E b \in WriteBodiesSolo : saveJson(1, b))
  /\ WF_vars(saveWake(1))

\* C16: every saveData call eventually returns; a timeout ends only the
\* attempt in flight and is handled as one failed attempt (one retry
\* consumed, then backoff or return false); no call makes more than
\* maxRetries + 1 requests.
C16_SaveTerminates ==
  /\ (calls[1].op = "saveData" /\ calls[1].pc # "done")
       ~> (calls[1].pc = "done")
  /\ [](calls[1].op = "saveData"
          => calls[1].reqs <= calls[1].maxRetries + 1)
  /\ [][(Resumed(1, "save_await") /\ calls'[1].status = "timeout")
          => /\ calls'[1].retries = calls[1].retries + 1
             /\ calls'[1].reqs = calls[1].reqs
             /\ IF calls[1].retries < calls[1].maxRetries
                THEN /\ calls'[1].pc = "save_sleep"
                     /\ calls'[1].delays =
                          Append(calls[1].delays,
                                 ExpectedDelay(calls'[1].retries))
                ELSE /\ calls'[1].pc = "done"
                     /\ calls'[1].ret = "false"]_vars

C16_Witness ==
  /\ calls[1].op = "saveData" /\ calls[1].pc = "done"
  /\ calls[1].ret = "true"
  /\ calls[1].maxRetries = 2 /\ calls[1].reqs = 3
  /\ calls[1].delays = <<1000, 2000>>

\* the step is a failure of the call in slot s: a read that ends in the catch
\* block, a write that is rejected or whose attempt fails, or a delete that
\* returns false
FailureStep(s) ==
  \/ /\ Resumed(s, "fetch_await")
     /\ calls'[s].status \in {"reject", "500"}
  \/ /\ Resumed(s, "fetch_json")
     /\ calls'[s].body \in {"invalid", "null"}
  \/ /\ Started(s)
     /\ calls'[s].op = "saveData" /\ calls'[s].pc = "done"
  \/ /\ Resumed(s, "save_await")
     /\ calls'[s].status \in {"reject", "timeout", "500"}
  \/ /\ Resumed(s, "save_text")
  \/ /\ Resumed(s, "save_json")
     /\ calls'[s].retries = calls[s].retries + 1
  \/ /\ Resumed(s, "delete_await")
     /\ calls'[s].ret = "false"

\* the step belongs to a listDataFiles call in slot s
ListStep(s) ==
  /\ calls'[s] # calls[s]
  /\ calls'[s].op = "listDataFiles"

\* C17: a read that ends in an error, a failed or rejected write attempt, a
\* failed delete, and every step of a listDataFiles call leave the cached
\* values and the expiry records of all keys unchanged.
C17_FailuresLeaveCache ==
  [][\A s \in Slots :
       (FailureStep(s) \/ ListStep(s))
         => UNCHANGED <<dataCache, cacheExpireTime>>]_vars

C17_Witness ==
  /\ lastDone = 2
  /\ calls[2].op = "deleteData" /\ calls[2].filename = "a"
  /\ calls[2].pc = "done" /\ calls[2].ret = "false"
  /\ CachingSuccess(calls[1], "a")
  /\ MapHas(dataCache, "a") /\ MapHas(cacheExpireTime, "a")
  /\ dataCache["a"] = StoredValue(calls[1])
  /\ ~isCacheValid("a")

\* C18: in every reachable state the value map and the expiry map have the
\* same key set.
C18_SameKeys == DOMAIN dataCache = DOMAIN cacheExpireTime

\* both keys were cached by two calls in flight together, then one was
\* cleared by name
C18_Witness ==
  /\ CachingSuccess(calls[1], "")
  /\ CachingSuccess(calls[2], "a")
  /\ DOMAIN dataCache = {""}
  /\ DOMAIN cacheExpireTime = {""}

\* the step starts or continues a fetchData or saveData call in slot s whose
\* useCache / updateCache argument is false
BypassStep(s) ==
  /\ calls'[s] # calls[s]
  /\ calls'[s].op \in {"fetchData", "saveData"}
  /\ ~calls'[s].flag

EntryWritten(k) ==
  /\ MapHas(dataCache', k)
  /\ \/ ~MapHas(dataCache, k)
     \/ dataCache'[k] # dataCache[k]
     \/ MapGet(cacheExpireTime', k) # MapGet(cacheExpireTime, k)

\* C20: the value cached for k is the payload of a successful read response
\* for k or the data of a saveData(k, ...) call whose attempt succeeded; a
\* defaultValue, the data of a failed or rejected write and the data of a
\* call for another key are never stored under k.
C20_OnlyServerConfirmedValues ==
  /\ [](\A k \in DOMAIN dataCache :
          /\ dataCache[k] \notin Defaults \cup {"null"}
          /\ k = "" => dataCache[k] \notin SaveValues)
  /\ [][\A k \in Names :
          EntryWritten(k) =>
            \E s \in Slots :
              /\ \/ Resumed(s, "fetch_json")
                 \/ Resumed(s, "save_json") /\ ValidSaveArgs(calls[s])
              /\ CachingSuccess(calls'[s], k)
              /\ dataCache'[k] = StoredValue(calls'[s])]_vars

\* a write cached "w1" under "a"; a cached read of "a" that was in flight
\* then got 404 and returned its default, and the entry is still "w1"
C20_Witness ==
  /\ lastDone = 1
  /\ calls[1].op = "fetchData" /\ calls[1].filename = "a" /\ calls[1].flag
  /\ calls[1].status = "404" /\ calls[1].ret = "d1"
  /\ CachingSuccess(calls[2], "a") /\ calls[2].op = "saveData"
  /\ MapGet(dataCache, "a") = "w1"

====
